---- MODULE Spec2Model ----
(***************************************************************************)
(* A model of convert-cbz-to-epub.py: the Batch Driver (process_folder),   *)
(* the Archive Converter (process_cbz), the Image Normalizer               *)
(* (compress_images) and the Document Assembler (create_epub).             *)
(*                                                                         *)
(* File names are sequences of character codes, so that the suffix tests,  *)
(* os.path.splitext and sorted() are computed the way the code computes    *)
(* them.  Directory paths are sequences of component names.                *)
(*                                                                         *)
(* Three specifications share the module:                                  *)
(*   Spec      the batch run over an input tree (process_folder and        *)
(*             process_cbz, one step per statement that can fail);         *)
(*   SpecEpub  create_epub over a scratch tree filled by extractall;       *)
(*   SpecNorm  the body of compress_images' loop, one image at a time.     *)
(***************************************************************************)
EXTENDS Integers, Sequences, FiniteSets

VARIABLES
    \* ---- Spec: the batch run
    inFiles,     \* input tree: directory -> set of file names (never modified)
    walkOrder,   \* the order in which os.walk yields the input directories
    walkIdx,     \* number of directories os.walk has yielded so far
    queue,       \* cbz_files not yet iterated in the current directory
    cur,         \* the archive process_cbz is working on: [dir, file]
    pc,          \* position of the run
    scratch,     \* scratch extraction directories that exist on disk
    tmpCount,    \* number of mkdtemp calls so far (names the next directory)
    outDirs,     \* directories that exist at or under the output root
    outFiles,    \* files that exist under the output root: [dir, file]
    log,         \* what has been done so far, in order: [step, arc]
    \* ---- SpecEpub: the Document Assembler
    tree,        \* scratch tree: directory -> set of file names
    book,        \* the EpubBook handed to write_epub
    epc,         \* position: "extract" | "written"
    \* ---- SpecNorm: the Image Normalizer
    maxHeight,   \* the max_height argument
    nfile,       \* the file the loop is at
    imgIn,       \* the image as decoded by Image.open
    img,         \* the image object the loop body holds
    saved,       \* what img.save wrote
    npc          \* position inside the loop body

batchVars == <<inFiles, walkOrder, walkIdx, queue, cur, pc, scratch, tmpCount,
               outDirs, outFiles, log>>
epubVars  == <<tree, book, epc>>
normVars  == <<maxHeight, nfile, imgIn, img, saved, npc>>
vars      == <<batchVars, epubVars, normVars>>

----------------------------------------------------------------------------
(* Bounds of the model *)

MaxInFiles == 3
MaxScratchFiles == 3
MaxWidth == 30
MaxHeight == 22
MaxMaxHeight == 11

----------------------------------------------------------------------------
(* Strings as sequences of character codes *)

\* ".cbz"
CbzSuffix == <<46, 99, 98, 122>>
\* ".epub"
EpubExt == <<46, 101, 112, 117, 98>>
\* ".xhtml"
XhtmlExt == <<46, 120, 104, 116, 109, 108>>
\* ('.png', '.jpg', '.jpeg')
VALID_IMAGE_EXTENSIONS ==
    { <<46, 112, 110, 103>>, <<46, 106, 112, 103>>, <<46, 106, 112, 101, 103>> }

\* "vol1.cbz", "V.2.CBZ", ".cbz" and "n.txt": the file names of the input trees
Vol1Cbz == <<118, 111, 108, 49, 46, 99, 98, 122>>
V2CBZ   == <<86, 46, 50, 46, 67, 66, 90>>
DotCbz  == <<46, 99, 98, 122>>
NotesTxt == <<110, 46, 116, 120, 116>>
ArchiveNames == {Vol1Cbz, V2CBZ, DotCbz}
OtherNames   == {NotesTxt}
InNames      == ArchiveNames \cup OtherNames

\* "a.jpg", "b.jpg", "c.jpg", "B.JPEG" and "n.txt": the file names of scratch trees
AJpg  == <<97, 46, 106, 112, 103>>
BJpg  == <<98, 46, 106, 112, 103>>
CJpg  == <<99, 46, 106, 112, 103>>
BJPEG == <<66, 46, 74, 80, 69, 71>>
ImageNames   == {AJpg, BJpg, CJpg, BJPEG}
ScratchNames == ImageNames \cup {NotesTxt}

\* str.lower() on one character and on a string (ASCII)
LowerChar(c) == IF c \in 65..90 THEN c + 32 ELSE c
Lower(s) == [i \in 1..Len(s) |-> LowerChar(s[i])]

\* str.endswith(suffix)
EndsWith(s, suffix) ==
    /\ Len(s) >= Len(suffix)
    /\ SubSeq(s, Len(s) - Len(suffix) + 1, Len(s)) = suffix

\* str.endswith(tuple of suffixes)
EndsWithAny(s, suffixes) == \E x \in suffixes : EndsWith(s, x)

\* A filter that lets every file through
IsCbzAll(name) == TRUE

\* f.lower().endswith('.cbz')
IsCbz(name) == EndsWith(Lower(name), CbzSuffix)

\* file.lower().endswith(VALID_IMAGE_EXTENSIONS)
IsImage(name) == EndsWithAny(Lower(name), VALID_IMAGE_EXTENSIONS)

\* Python's < on strings: lexicographic on the code points
RECURSIVE StrLess(_, _)
StrLess(a, b) ==
    IF b = <<>> THEN FALSE
    ELSE IF a = <<>> THEN TRUE
    ELSE IF a[1] # b[1] THEN a[1] < b[1]
    ELSE StrLess(Tail(a), Tail(b))

\* os.path.splitext(name)[0] of a name without separators: the part before the
\* last dot, unless only dots precede that dot (a leading dot starts no extension)
LastDot(s) ==
    IF \E i \in 1..Len(s) : s[i] = 46
    THEN CHOOSE i \in 1..Len(s) : s[i] = 46 /\ \A j \in (i+1)..Len(s) : s[j] # 46
    ELSE 0
\* The part before the first dot
SplitExtFirstDot(s) ==
    IF \E i \in 1..Len(s) : s[i] = 46
    THEN SubSeq(s, 1, (CHOOSE i \in 1..Len(s) :
                          s[i] = 46 /\ \A j \in 1..(i-1) : s[j] # 46) - 1)
    ELSE s
\* os.path.splitext(s)[0]
SplitExtRoot(s) ==
    LET d == LastDot(s) IN
    IF d > 0 /\ \E i \in 1..(d-1) : s[i] # 46 THEN SubSeq(s, 1, d - 1) ELSE s

----------------------------------------------------------------------------
(* Paths and directory trees *)

InputFolder  == <<"in">>
OutputFolder == <<"out">>

\* The directories of the input trees: in, in/seriesA, in/seriesA/x, in/seriesB
InDirs == { InputFolder, InputFolder \o <<"seriesA">>,
            InputFolder \o <<"seriesA", "x">>, InputFolder \o <<"seriesB">> }

IsPrefix(p, q) == Len(p) <= Len(q) /\ SubSeq(q, 1, Len(p)) = p

\* os.path.relpath(root, input_folder) for a root at or under input_folder
RelPath(root, start) ==
    IF root = start THEN <<".">> ELSE SubSeq(root, Len(start) + 1, Len(root))

\* os.path.join(a, b) for a relative b
JoinPath(a, b) == a \o b

\* The directory a path names once the "." components are resolved
Resolve(p) == SelectSeq(p, LAMBDA c : c # ".")

\* os.makedirs(p, exist_ok=True): p and every missing ancestor of it
MakeDirs(dirs, p) ==
    dirs \cup { SubSeq(Resolve(p), 1, k) : k \in 1..Len(Resolve(p)) }

\* The orders in which os.walk (top-down) can yield the directories: a directory
\* before everything under it, each subtree in one block, siblings in any order
Perms(S) ==
    { f \in [1..Cardinality(S) -> S] : \A x \in S : \E i \in DOMAIN f : f[i] = x }
WalkOrders(dirs) ==
    { o \in Perms(dirs) :
        \A i \in DOMAIN o : \A j \in DOMAIN o :
            IsPrefix(o[i], o[j])
                => i <= j /\ \A k \in i..j : IsPrefix(o[i], o[k]) }

----------------------------------------------------------------------------
(* process_cbz and process_folder *)

NoArchive == [dir |-> <<>>, file |-> <<>>]

\* epub_filename (line 82)
EpubFilename(arc) == SplitExtRoot(arc.file) \o EpubExt

\* epub_output_path (line 83), with relative_path as process_folder passes it
EpubOutputPath(arc) == JoinPath(OutputFolder, RelPath(arc.dir, InputFolder))

\* epub_path (line 85) as the file it names
EpubPath(arc) == [dir |-> Resolve(EpubOutputPath(arc)), file |-> EpubFilename(arc)]

\* The statements with the notice ahead of create_epub
StepsSwapped == <<"mkdtemp", "extract", "normalize", "makedirs", "notice",
                  "create_epub", "exit">>
\* The statements of process_cbz's with-block, in program order
Steps == <<"mkdtemp", "extract", "normalize", "makedirs", "create_epub",
           "notice", "exit">>
StepAfter(s) == Steps[(CHOOSE i \in DOMAIN Steps : Steps[i] = s) + 1]

\* An exit that leaves the scratch directory behind
TempDirLeak(dirs, d) == dirs

\* TemporaryDirectory.__exit__: the scratch directory is removed
TempDirExit(dirs, d) == dirs \ {d}

\* A handler around the call of line 106 would go on with the next archive
AfterErrorCaught == "next_cbz"

\* Where control goes when process_cbz raises: process_folder has no handler,
\* so the error leaves process_folder and main
AfterError == "aborted"

Event(step, arc) == [step |-> step, arc |-> arc]

\* cbz_files (line 101) of a directory
CbzFiles(d) == { f \in inFiles[d] : IsCbz(f) }

TotalFiles(t) ==
    LET RECURSIVE Sum(_)
        Sum(S) == IF S = {} THEN 0
                  ELSE LET d == CHOOSE x \in S : TRUE
                       IN Cardinality(t[d]) + Sum(S \ {d})
    IN Sum(DOMAIN t)

EpubIdle == tree = [d \in {} |-> {}] /\ book = <<>> /\ epc = "off"
NoImage == [w |-> 0, h |-> 0, mode |-> "none"]
NormIdle ==
    /\ maxHeight = 0 /\ nfile = <<>> /\ imgIn = NoImage /\ img = NoImage
    /\ saved = NoImage /\ npc = "off"
BatchIdle ==
    /\ inFiles = [d \in {} |-> {}] /\ walkOrder = <<>> /\ walkIdx = 0
    /\ queue = <<>> /\ cur = NoArchive /\ pc = "off" /\ scratch = {}
    /\ tmpCount = 0 /\ outDirs = {} /\ outFiles = {} /\ log = <<>>

Init ==
    /\ inFiles \in { t \in [InDirs -> SUBSET InNames] : TotalFiles(t) <= MaxInFiles }
    /\ walkOrder \in WalkOrders(InDirs)
    /\ walkIdx = 0
    /\ queue = <<>>
    /\ cur = NoArchive
    /\ pc = "walk"
    /\ scratch = {}
    /\ tmpCount = 0
    /\ outDirs = {}
    /\ outFiles = {}
    /\ log = <<>>
    /\ EpubIdle
    /\ NormIdle

\* os.walk is exhausted: process_folder returns
WalkDone ==
    /\ pc = "walk"
    /\ walkIdx = Len(walkOrder)
    /\ pc' = "done"
    /\ UNCHANGED <<inFiles, walkOrder, walkIdx, queue, cur, scratch, tmpCount,
                   outDirs, outFiles, log>>
    /\ UNCHANGED <<epubVars, normVars>>

\* lines 99-103: the next directory holds no archive
WalkSkipDir ==
    /\ pc = "walk"
    /\ walkIdx < Len(walkOrder)
    /\ CbzFiles(walkOrder[walkIdx + 1]) = {}
    /\ walkIdx' = walkIdx + 1
    /\ UNCHANGED <<inFiles, walkOrder, queue, cur, pc, scratch, tmpCount,
                   outDirs, outFiles, log>>
    /\ UNCHANGED <<epubVars, normVars>>

\* lines 99-105: the next directory holds archives, in the order os.walk lists them
WalkEnterDir ==
    /\ pc = "walk"
    /\ walkIdx < Len(walkOrder)
    /\ CbzFiles(walkOrder[walkIdx + 1]) # {}
    /\ \E listing \in Perms(CbzFiles(walkOrder[walkIdx + 1])) : queue' = listing
    /\ walkIdx' = walkIdx + 1
    /\ pc' = "next_cbz"
    /\ UNCHANGED <<inFiles, walkOrder, cur, scratch, tmpCount, outDirs, outFiles, log>>
    /\ UNCHANGED <<epubVars, normVars>>

\* line 105: the inner loop is exhausted
LoopEnd ==
    /\ pc = "next_cbz"
    /\ queue = <<>>
    /\ pc' = "walk"
    /\ cur' = NoArchive
    /\ UNCHANGED <<inFiles, walkOrder, walkIdx, queue, scratch, tmpCount,
                   outDirs, outFiles, log>>
    /\ UNCHANGED <<epubVars, normVars>>

\* lines 105-106: process_cbz is called for the next archive
CallProcessCbz ==
    /\ pc = "next_cbz"
    /\ queue # <<>>
    /\ cur' = [dir |-> walkOrder[walkIdx], file |-> Head(queue)]
    /\ queue' = Tail(queue)
    /\ pc' = Steps[1]
    /\ UNCHANGED <<inFiles, walkOrder, walkIdx, scratch, tmpCount, outDirs, outFiles, log>>
    /\ UNCHANGED <<epubVars, normVars>>

\* line 78: the scratch directory is created
MkDTemp ==
    /\ pc = "mkdtemp"
    /\ tmpCount' = tmpCount + 1
    /\ scratch' = scratch \cup {tmpCount + 1}
    /\ log' = Append(log, Event("mkdtemp", cur))
    /\ pc' = StepAfter(pc)
    /\ UNCHANGED <<inFiles, walkOrder, walkIdx, queue, cur, outDirs, outFiles>>
    /\ UNCHANGED <<epubVars, normVars>>

\* lines 79-80: the archive is extracted
Extract ==
    /\ pc = "extract"
    /\ log' = Append(log, Event("extract", cur))
    /\ pc' = StepAfter(pc)
    /\ UNCHANGED <<inFiles, walkOrder, walkIdx, queue, cur, scratch, tmpCount,
                   outDirs, outFiles>>
    /\ UNCHANGED <<epubVars, normVars>>

\* line 81: every image is normalized
Normalize ==
    /\ pc = "normalize"
    /\ log' = Append(log, Event("normalize", cur))
    /\ pc' = StepAfter(pc)
    /\ UNCHANGED <<inFiles, walkOrder, walkIdx, queue, cur, scratch, tmpCount,
                   outDirs, outFiles>>
    /\ UNCHANGED <<epubVars, normVars>>

\* lines 82-84: the output directory is created
MakeOutputDir ==
    /\ pc = "makedirs"
    /\ outDirs' = MakeDirs(outDirs, EpubOutputPath(cur))
    /\ log' = Append(log, Event("makedirs", cur))
    /\ pc' = StepAfter(pc)
    /\ UNCHANGED <<inFiles, walkOrder, walkIdx, queue, cur, scratch, tmpCount, outFiles>>
    /\ UNCHANGED <<epubVars, normVars>>

\* lines 85-86: the document is assembled and written (an existing file is replaced)
CreateEpub ==
    /\ pc = "create_epub"
    /\ outFiles' = outFiles \cup {EpubPath(cur)}
    /\ log' = Append(log, Event("create_epub", cur))
    /\ pc' = StepAfter(pc)
    /\ UNCHANGED <<inFiles, walkOrder, walkIdx, queue, cur, scratch, tmpCount, outDirs>>
    /\ UNCHANGED <<epubVars, normVars>>

\* line 87: the success notice
Notice ==
    /\ pc = "notice"
    /\ log' = Append(log, Event("notice", cur))
    /\ pc' = StepAfter(pc)
    /\ UNCHANGED <<inFiles, walkOrder, walkIdx, queue, cur, scratch, tmpCount,
                   outDirs, outFiles>>
    /\ UNCHANGED <<epubVars, normVars>>

\* the with-block of line 78 is left normally: process_cbz returns
ExitOk ==
    /\ pc = "exit"
    /\ scratch' = TempDirExit(scratch, tmpCount)
    /\ log' = Append(log, Event("exit", cur))
    /\ pc' = "next_cbz"
    /\ UNCHANGED <<inFiles, walkOrder, walkIdx, queue, cur, tmpCount, outDirs, outFiles>>
    /\ UNCHANGED <<epubVars, normVars>>

\* A statement of the with-block raises (a corrupt archive at extractall, an
\* undecodable image in compress_images, an OSError in makedirs or write_epub):
\* the with-block is left by the exception, which then leaves process_cbz
Raise ==
    /\ pc \in {"extract", "normalize", "makedirs", "create_epub"}
    /\ scratch' = TempDirExit(scratch, tmpCount)
    /\ log' = log \o <<Event("error", cur), Event("exit", cur)>>
    /\ pc' = AfterError
    /\ UNCHANGED <<inFiles, walkOrder, walkIdx, queue, cur, tmpCount, outDirs, outFiles>>
    /\ UNCHANGED <<epubVars, normVars>>

Next ==
    \/ WalkDone
    \/ WalkSkipDir
    \/ WalkEnterDir
    \/ LoopEnd
    \/ CallProcessCbz
    \/ MkDTemp
    \/ Extract
    \/ Normalize
    \/ MakeOutputDir
    \/ CreateEpub
    \/ Notice
    \/ ExitOk
    \/ Raise

Spec == Init /\ [][Next]_vars

----------------------------------------------------------------------------
(* create_epub *)

\* The directories of the scratch trees, relative to temp_dir:
\* ., ch1, ch1/p, ch2
ScratchDirs == { <<>>, <<"ch1">>, <<"ch1", "p">>, <<"ch2">> }

\* The names in descending order
RECURSIVE SortedDescending(_)
SortedDescending(S) ==
    IF S = {} THEN <<>>
    ELSE LET m == CHOOSE x \in S : \A y \in S \ {x} : StrLess(y, x)
         IN  <<m>> \o SortedDescending(S \ {m})

\* sorted(files): ascending, by repeatedly taking the least name
RECURSIVE Sorted(_)
Sorted(S) ==
    IF S = {} THEN <<>>
    ELSE LET m == CHOOSE x \in S : \A y \in S \ {x} : StrLess(x, y)
         IN  <<m>> \o Sorted(S \ {m})

\* img_item (line 55): uid and file_name are the base name, the content is what
\* was read from img_path
ImageItem(d, name) ==
    [kind |-> "image", key |-> name, file_name |-> name,
     content |-> [dir |-> d, file |-> name]]

\* chapter (lines 57-58): titled by the base name, stored as <base name>.xhtml,
\* its markup refers to the image by base name
Chapter(d, name) ==
    [kind |-> "chapter", key |-> name, file_name |-> name \o XhtmlExt,
     content |-> [dir |-> <<>>, file |-> name]]

\* EpubNcx and EpubNav (lines 63-64)
StructuralItem(kind) ==
    [kind |-> kind, key |-> <<>>, file_name |-> <<>>,
     content |-> [dir |-> <<>>, file |-> <<>>]]

\* A table of contents that keeps the first chapter
TocWholeSpine(spine) == spine

\* book.toc (line 62): spine[1:]
Toc(spine) == SubSeq(spine, 2, Len(spine))

\* lines 49-60 for one directory of the walk: the book after its files
RECURSIVE AddFiles(_, _, _)
AddFiles(b, d, names) ==
    IF names = <<>> THEN b
    ELSE LET name == Head(names)
             b2 == IF IsImage(name)
                   THEN [b EXCEPT !.items = @ \o <<ImageItem(d, name), Chapter(d, name)>>,
                                  !.spine = Append(@, Chapter(d, name))]
                   ELSE b
         IN  AddFiles(b2, d, Tail(names))

\* lines 48-60: the book after the walk over the scratch tree in the given order
RECURSIVE AddDirs(_, _, _)
AddDirs(b, t, order) ==
    IF order = <<>> THEN b
    ELSE AddDirs(AddFiles(b, Head(order), Sorted(t[Head(order)])), t, Tail(order))

\* lines 42-64: the book create_epub hands to write_epub
NewBook == [items |-> <<>>, spine |-> <<>>, toc |-> <<>>]
CreateEpubBook(t, order) ==
    LET b == AddDirs(NewBook, t, order)
    IN  [b EXCEPT !.toc = Toc(b.spine),
                  !.items = @ \o <<StructuralItem("ncx"), StructuralItem("nav")>>]

InitEpub ==
    /\ tree = [d \in ScratchDirs |-> {}]
    /\ book = NewBook
    /\ epc = "extract"
    /\ BatchIdle
    /\ NormIdle

\* line 80: extractall writes one more entry of the archive into the scratch tree
ExtractEntry(d, name) ==
    /\ epc = "extract"
    /\ name \notin tree[d]
    /\ TotalFiles(tree) < MaxScratchFiles
    /\ tree' = [tree EXCEPT ![d] = @ \cup {name}]
    /\ UNCHANGED <<book, epc>>
    /\ UNCHANGED <<batchVars, normVars>>

\* lines 42-65: create_epub over the scratch tree, os.walk yielding the
\* directories in one of its possible orders
AssembleEpub ==
    /\ epc = "extract"
    /\ \E order \in WalkOrders(ScratchDirs) : book' = CreateEpubBook(tree, order)
    /\ epc' = "written"
    /\ UNCHANGED tree
    /\ UNCHANGED <<batchVars, normVars>>

NextEpub ==
    \/ \E d \in ScratchDirs : \E name \in ScratchNames : ExtractEntry(d, name)
    \/ AssembleEpub

SpecEpub == InitEpub /\ [][NextEpub]_vars

----------------------------------------------------------------------------
(* compress_images *)

(* Python floats are IEEE 754 doubles: 53 significant bits, results rounded to
   nearest, ties to even.  A double x >= 1/2^30 is modelled as [m, e] with
   x = (1 + m[1]/B + m[2]/B^2 + m[3]/B^3 + m[4]/B^4) * 2^e, B = 2^13: the leading
   bit and four limbs of 13 bits make the 53 bits.  The operands of the model
   are small enough for every intermediate product to stay below 2^31. *)

Base == 2^13

\* floor(log2(w / h)) for positive ints
Exponent(w, h) ==
    IF w >= h
    THEN CHOOSE t \in 0..30 : h * 2^t <= w /\ w < h * 2^(t + 1)
    ELSE - (CHOOSE t \in 1..30 : w * 2^t >= h /\ w * 2^(t - 1) < h)

\* floor(log2(n)) for a positive int
BitLength(n) == CHOOSE t \in 0..30 : 2^t <= n /\ n < 2^(t + 1)

\* The limbs m plus one unit in the last place, and the carry out of them
IncLimbs(m) ==
    LET s4 == m[4] + 1
        s3 == m[3] + s4 \div Base
        s2 == m[2] + s3 \div Base
        s1 == m[1] + s2 \div Base
    IN  [limbs |-> <<s1 % Base, s2 % Base, s3 % Base, s4 % Base>>,
         carry |-> s1 \div Base]

\* The double with limbs m and exponent e, one unit in the last place higher
\* if up (a carry out of the limbs gives the next power of two)
Rounded(m, e, up) ==
    IF ~up THEN [m |-> m, e |-> e]
    ELSE LET i == IncLimbs(m)
         IN  IF i.carry = 1 THEN [m |-> <<0, 0, 0, 0>>, e |-> e + 1]
                            ELSE [m |-> i.limbs, e |-> e]

\* w / h for positive ints (true division, line 29): long division of the
\* quotient scaled into [1, 2), then rounding on the remainder
FloatDiv(w, h) ==
    LET e  == Exponent(w, h)
        u  == IF e >= 0 THEN w ELSE w * 2^(-e)
        v  == IF e >= 0 THEN h * 2^e ELSE h
        r0 == u - v
        l1 == (r0 * Base) \div v
        r1 == (r0 * Base) % v
        l2 == (r1 * Base) \div v
        r2 == (r1 * Base) % v
        l3 == (r2 * Base) \div v
        r3 == (r2 * Base) % v
        l4 == (r3 * Base) \div v
        r4 == (r3 * Base) % v
        up == 2 * r4 > v \/ (2 * r4 = v /\ l4 % 2 = 1)
    IN  Rounded(<<l1, l2, l3, l4>>, e, up)

\* x * k for a double x and a positive int k (line 30): the exact product,
\* shifted back to 53 bits, then rounding on the bits shifted out
FloatMulInt(x, k) ==
    LET p4 == x.m[4] * k
        p3 == x.m[3] * k + p4 \div Base
        p2 == x.m[2] * k + p3 \div Base
        p1 == x.m[1] * k + p2 \div Base
        top == k + p1 \div Base
        d  == BitLength(top)
        dd == 2^d
        q1 == (top % dd) * (Base \div dd) + (p1 % Base) \div dd
        q2 == ((p1 % Base) % dd) * (Base \div dd) + (p2 % Base) \div dd
        q3 == ((p2 % Base) % dd) * (Base \div dd) + (p3 % Base) \div dd
        q4 == ((p3 % Base) % dd) * (Base \div dd) + (p4 % Base) \div dd
        out == (p4 % Base) % dd
        up == 2 * out > dd \/ (2 * out = dd /\ q4 % 2 = 1)
    IN  Rounded(<<q1, q2, q3, q4>>, x.e + d, up)

\* int(x) for a positive double below 2^14 (line 30): truncation
FloatToInt(x) ==
    IF x.e < 0 THEN 0 ELSE 2^(x.e) + x.m[1] \div (Base \div 2^(x.e))

\* w * max_height / h rounded to the nearest integer
NewWidthRounded(w, h, max_height) == (2 * w * max_height + h) \div (2 * h)

\* new_width (lines 29-30)
NewWidth(w, h, max_height) == FloatToInt(FloatMulInt(FloatDiv(w, h), max_height))

\* A test that also takes images exactly max_height tall
NeedsResizeAtLimit(h, max_height) == h >= max_height

\* the test of line 28
NeedsResize(h, max_height) == h > max_height

\* The files the walk of compress_images meets: "a.jpg", "B.JPEG", "n.txt"
NormNames == {AJpg, BJPEG, NotesTxt}

InitNorm ==
    /\ maxHeight \in 1..MaxMaxHeight
    /\ nfile = <<>>
    /\ imgIn = NoImage
    /\ img = NoImage
    /\ saved = NoImage
    /\ npc = "walk"
    /\ BatchIdle
    /\ EpubIdle

\* lines 21-23: the walk meets a file that is no image
NormSkipFile(name) ==
    /\ npc = "walk"
    /\ ~IsImage(name)
    /\ nfile' = name
    /\ imgIn' = NoImage /\ img' = NoImage /\ saved' = NoImage
    /\ UNCHANGED <<maxHeight, npc>>
    /\ UNCHANGED <<batchVars, epubVars>>

\* lines 21-25: the walk meets an image and Image.open decodes it
NormOpen ==
    /\ npc = "walk"
    /\ \E name \in NormNames : \E w \in 1..MaxWidth : \E h \in 1..MaxHeight :
          \E mode \in {"P", "RGB"} :
            /\ IsImage(name)
            /\ nfile' = name
            /\ imgIn' = [w |-> w, h |-> h, mode |-> mode]
            /\ img' = [w |-> w, h |-> h, mode |-> mode]
    /\ saved' = NoImage
    /\ npc' = "opened"
    /\ UNCHANGED maxHeight
    /\ UNCHANGED <<batchVars, epubVars>>

\* line 25: Image.open raises on a file it cannot decode; nothing catches it
NormDecodeError(name) ==
    /\ npc = "walk"
    /\ IsImage(name)
    /\ nfile' = name
    /\ imgIn' = NoImage /\ img' = NoImage /\ saved' = NoImage
    /\ npc' = "raised"
    /\ UNCHANGED maxHeight
    /\ UNCHANGED <<batchVars, epubVars>>

\* lines 26-27
NormConvert ==
    /\ npc = "opened"
    /\ img' = IF img.mode = "P" THEN [img EXCEPT !.mode = "RGB"] ELSE img
    /\ npc' = "converted"
    /\ UNCHANGED <<maxHeight, nfile, imgIn, saved>>
    /\ UNCHANGED <<batchVars, epubVars>>

\* lines 28-31
NormResize ==
    /\ npc = "converted"
    /\ img' = IF NeedsResize(img.h, maxHeight)
              THEN [img EXCEPT !.w = NewWidth(img.w, img.h, maxHeight),
                               !.h = maxHeight]
              ELSE img
    /\ npc' = "resized"
    /\ UNCHANGED <<maxHeight, nfile, imgIn, saved>>
    /\ UNCHANGED <<batchVars, epubVars>>

\* line 32: the file is overwritten with the image the loop body holds
NormSave ==
    /\ npc = "resized"
    /\ saved' = img
    /\ npc' = "saved"
    /\ UNCHANGED <<maxHeight, nfile, imgIn, img>>
    /\ UNCHANGED <<batchVars, epubVars>>

\* line 25: the with-block closes the image, and the loop goes on to the next file
NormNextFile ==
    /\ npc = "saved"
    /\ imgIn' = NoImage /\ img' = NoImage /\ saved' = NoImage
    /\ npc' = "walk"
    /\ UNCHANGED <<maxHeight, nfile>>
    /\ UNCHANGED <<batchVars, epubVars>>

NextNorm ==
    \/ \E name \in NormNames : NormSkipFile(name)
    \/ NormOpen
    \/ \E name \in NormNames : NormDecodeError(name)
    \/ NormConvert
    \/ NormResize
    \/ NormSave
    \/ NormNextFile

SpecNorm == InitNorm /\ [][NextNorm]_vars

----------------------------------------------------------------------------
(* Claims about the batch run (checked under Spec) *)

HasEvent(step, arc) == \E k \in DOMAIN log : log[k] = Event(step, arc)
ErrorSeen == \E k \in DOMAIN log : log[k].step = "error"

\* Control is in process_folder (or has left it), not inside process_cbz
AtCaller == pc \in {"walk", "next_cbz", "done", "aborted"}

\* The output directory that mirrors an input directory
Mirror(d) == OutputFolder \o SubSeq(d, Len(InputFolder) + 1, Len(d))

\* Archives the iteration has not reached yet
Remaining ==
    { [dir |-> walkOrder[walkIdx], file |-> queue[i]] : i \in DOMAIN queue }
    \cup { a \in [dir : InDirs, file : ArchiveNames] :
             /\ a.file \in inFiles[a.dir]
             /\ \E k \in (walkIdx + 1)..Len(walkOrder) : walkOrder[k] = a.dir }

\* C1: whenever control is back in the caller of process_cbz (after a normal
\* return or after any failure), and after the whole batch, no scratch
\* extraction directory exists.
C1_ScratchRemovedOnReturn == AtCaller => scratch = {}

\* C1 witness: an earlier conversion succeeded, a later one failed after its
\* scratch directory had been created, and control has left process_cbz.
C1_Witness ==
    /\ pc = "aborted"
    /\ \E k \in DOMAIN log : log[k].step = "notice"
    /\ \E k \in DOMAIN log : log[k].step = "error" /\ HasEvent("makedirs", log[k].arc)
    /\ scratch = {}

\* The file name C2 states: the final ".cbz" of the base name replaced by ".epub"
ClaimedFilename(f) == SubSeq(f, 1, Len(f) - Len(CbzSuffix)) \o EpubExt
ClaimedPath(arc) == [dir |-> Mirror(arc.dir), file |-> ClaimedFilename(arc.file)]

\* The same, except that a base name with nothing but dots before its final
\* ".cbz" is kept whole
OnlyDots(s) == \A i \in DOMAIN s : s[i] = 46
AmendedFilename(f) ==
    IF OnlyDots(SubSeq(f, 1, Len(f) - Len(CbzSuffix)))
    THEN f \o EpubExt
    ELSE ClaimedFilename(f)
AmendedPath(arc) == [dir |-> Mirror(arc.dir), file |-> AmendedFilename(arc.file)]

Written == { a \in [dir : InDirs, file : InNames] : HasEvent("create_epub", a) }

\* C2 as stated: the files under the output root are exactly, for each archive
\* written so far, output root / relative directory / base name with its final
\* extension replaced by .epub.
C2_PathMirroringAsStated == outFiles = { ClaimedPath(a) : a \in Written }

\* C2 amended: the same, where a base name that has only dots before its final
\* ".cbz" (such as ".cbz") keeps its whole name and gets ".epub" appended.
C2_PathMirroring == outFiles = { AmendedPath(a) : a \in Written }

\* C2 witness: in/seriesA/vol1.cbz has been written as out/seriesA/vol1.epub,
\* and an archive of the input root has been written too.
C2_Witness ==
    /\ HasEvent("create_epub", [dir |-> InputFolder \o <<"seriesA">>, file |-> Vol1Cbz])
    /\ [dir |-> OutputFolder \o <<"seriesA">>,
        file |-> <<118, 111, 108, 49>> \o EpubExt] \in outFiles
    /\ \E a \in Written : a.dir = InputFolder

HasArchive(d) == inFiles[d] \cap ArchiveNames # {}
HasArchiveBelow(d) == \E e \in InDirs : IsPrefix(d, e) /\ HasArchive(e)

\* C5 as stated: an input directory (below the input root) that directly
\* contains no archive has no corresponding subdirectory under the output root,
\* even when a descendant of it contains archives.
C5_SkipEmptyAsStated ==
    \A d \in InDirs \ {InputFolder} : ~HasArchive(d) => Mirror(d) \notin outDirs

\* C5 amended: an input directory with no archive in it or anywhere below it has
\* no corresponding output directory; after a complete run the output
\* directories are exactly those of the input directories with an archive in or
\* below them (a directory without archives of its own is created as an
\* ancestor of a descendant's output directory).
C5_SkipEmpty ==
    /\ \A d \in InDirs : ~HasArchiveBelow(d) => Mirror(d) \notin outDirs
    /\ pc = "done" => outDirs = { Mirror(d) : d \in { e \in InDirs : HasArchiveBelow(e) } }

\* C5 witness: a complete run in which in/seriesB holds only a non-archive file
\* and got no output directory, while in/seriesA, with no archive of its own,
\* was created for in/seriesA/x.
C5_Witness ==
    /\ pc = "done"
    /\ inFiles[InputFolder \o <<"seriesB">>] = {NotesTxt}
    /\ ~HasArchive(InputFolder \o <<"seriesA">>)
    /\ OutputFolder \o <<"seriesA">> \in outDirs
    /\ OutputFolder \o <<"seriesB">> \notin outDirs

\* C9: once a conversion has failed, the batch is aborted and the failure is the
\* last thing that happened: nothing is extracted, converted or written for any
\* archive later in the iteration order, and the output of every archive
\* converted before the failure is on disk.
C9_FailFast ==
    ErrorSeen =>
        /\ pc = "aborted"
        /\ Len(log) >= 2
        /\ log[Len(log) - 1].step = "error"
        /\ log[Len(log)].step = "exit"
        /\ \A a \in Remaining : \A k \in DOMAIN log : log[k].arc # a
        /\ \A k \in DOMAIN log : log[k].step = "notice" => AmendedPath(log[k].arc) \in outFiles

\* C9 witness: one archive was converted, the next failed, a third was never
\* started.
C9_Witness ==
    /\ pc = "aborted"
    /\ \E k \in DOMAIN log : log[k].step = "notice"
    /\ Remaining # {}

\* The order of steps C10 states
ClaimedOrder == <<"mkdtemp", "extract", "normalize", "makedirs", "create_epub",
                  "notice", "exit">>
Follows(a, b) == \E i \in 1..(Len(ClaimedOrder) - 1) :
                    ClaimedOrder[i] = a /\ ClaimedOrder[i + 1] = b

\* C10: the steps of each conversion happen in the order extract, normalize,
\* create output directory, assemble and write, notice, remove scratch; a
\* conversion begins only after the previous one has removed its scratch
\* directory; at most one scratch directory exists at any time; the notice for
\* an archive comes only after its output file is written.
C10_Staged ==
    /\ Cardinality(scratch) <= 1
    /\ (log # <<>>) => log[1].step = "mkdtemp"
    /\ \A k \in 2..Len(log) :
          LET a == log[k - 1]
              b == log[k]
          IN  IF b.step = "mkdtemp"
              THEN /\ a.step = "exit"
                   /\ \A j \in 1..(k - 1) : log[j].step # "error" /\ log[j].arc # b.arc
              ELSE /\ a.arc = b.arc
                   /\ \/ Follows(a.step, b.step)
                      \/ b.step = "error" /\ a.step \in {"mkdtemp", "extract", "normalize", "makedirs"}
                      \/ b.step = "exit" /\ a.step = "error"
    /\ \A k \in DOMAIN log : log[k].step = "notice" => AmendedPath(log[k].arc) \in outFiles
    /\ (scratch = {}) <=> (log = <<>> \/ log[Len(log)].step = "exit")

\* C10 witness: two archives were converted one after the other, completely.
C10_Witness ==
    /\ pc = "done"
    /\ ~ErrorSeen
    /\ Cardinality({ k \in DOMAIN log : log[k].step = "exit" }) >= 2

----------------------------------------------------------------------------
(* Claims about the Document Assembler (checked under SpecEpub) *)

ImageItems == SelectSeq(book.items, LAMBDA it : it.kind = "image")
ChapterItems == SelectSeq(book.items, LAMBDA it : it.kind = "chapter")
QualifyingFiles ==
    { f \in [dir : ScratchDirs, file : ScratchNames] :
        f.file \in tree[f.dir] /\ IsImage(f.file) }

\* The spine has one chapter per qualifying image of the tree, in the order in
\* which the image items were added
SpineCoversImages ==
    /\ Len(book.spine) = Len(ImageItems)
    /\ \A i \in DOMAIN book.spine : book.spine[i].key = ImageItems[i].content.file
    /\ { ImageItems[i].content : i \in DOMAIN ImageItems } = QualifyingFiles
    /\ Len(ImageItems) = Cardinality(QualifyingFiles)

\* a does not come after b in file name order, compared as sorted() compares or
\* without regard to case
NotAfter(a, b) == ~StrLess(b, a) \/ ~StrLess(Lower(b), Lower(a))

\* C3 as stated: the spine lists the qualifying images of the whole scratch tree
\* in ascending file name order.
C3_GlobalOrderAsStated ==
    epc = "written" =>
        /\ SpineCoversImages
        /\ \A i \in DOMAIN book.spine : \A j \in DOMAIN book.spine :
              i < j => NotAfter(book.spine[i].key, book.spine[j].key)

\* C3 amended: the spine lists the qualifying images directory by directory, in
\* ascending file name order within each directory; the images of one directory
\* are adjacent and come before the images of the directories below it (the
\* order of os.walk); for a tree with images in one directory only this is
\* ascending file name order.
C3_PerDirectoryOrder ==
    epc = "written" =>
        /\ SpineCoversImages
        /\ \A i \in DOMAIN ImageItems : \A j \in DOMAIN ImageItems :
              i < j =>
                LET di == ImageItems[i].content.dir
                    dj == ImageItems[j].content.dir
                IN  /\ di = dj => StrLess(book.spine[i].key, book.spine[j].key)
                    /\ di = dj => \A k \in i..j : ImageItems[k].content.dir = di
                    /\ di # dj => ~IsPrefix(dj, di)

\* C3 witness: b.jpg, a.jpg and c.jpg in one directory came out as a, b, c.
C3_Witness ==
    /\ epc = "written"
    /\ tree[<<>>] = {BJpg, AJpg, CJpg}
    /\ Len(book.spine) = 3
    /\ <<book.spine[1].key, book.spine[2].key, book.spine[3].key>> = <<AJpg, BJpg, CJpg>>

\* C4: the table of contents is the spine without its first chapter, in the same
\* order; the spine has one chapter per qualifying image; with n >= 1 qualifying
\* images the table of contents has n - 1 entries.
C4_TocIsSpineTail ==
    epc = "written" =>
        /\ SpineCoversImages
        /\ Len(book.toc) = (IF Len(book.spine) = 0 THEN 0 ELSE Len(book.spine) - 1)
        /\ \A i \in DOMAIN book.toc : book.toc[i] = book.spine[i + 1]
        /\ Cardinality(QualifyingFiles) >= 1
              => Len(book.toc) = Cardinality(QualifyingFiles) - 1

\* C4 witness: a book of three images with a table of contents of two entries.
C4_Witness ==
    /\ epc = "written"
    /\ Cardinality(QualifyingFiles) = 3
    /\ Len(book.spine) = 3
    /\ Len(book.toc) = 2

Distinct(items) ==
    \A i \in DOMAIN items : \A j \in DOMAIN items :
        i # j => items[i].key # items[j].key /\ items[i].file_name # items[j].file_name

\* C8: the document has one image item and one chapter item per qualifying image
\* of the scratch tree, and no two image items and no two chapter items share
\* an identifier or a file name, also when images in different subdirectories
\* have the same base name.
C8_UniqueItems ==
    epc = "written" =>
        /\ SpineCoversImages
        /\ Len(ChapterItems) = Len(ImageItems)
        /\ Distinct(ImageItems)
        /\ Distinct(ChapterItems)

----------------------------------------------------------------------------
(* Claims about the Image Normalizer (checked under SpecNorm) *)

Saved == saved # NoImage

\* C6 as stated: an image taller than max_height is saved with height
\* max_height and with width w * max_height / h rounded to the nearest integer.
C6_RoundedWidthAsStated ==
    (Saved /\ imgIn.h > maxHeight) =>
        /\ saved.h = maxHeight
        /\ 2 * saved.w * imgIn.h - 2 * imgIn.w * maxHeight <= imgIn.h
        /\ 2 * imgIn.w * maxHeight - 2 * saved.w * imgIn.h <= imgIn.h

\* C6 amended: an image taller than max_height is saved with height max_height
\* and with width int((w / h) * max_height) in double arithmetic, that is
\* w * max_height / h truncated: floor(w * max_height / h), except that when
\* w * max_height / h is an integer k the double product can fall just below k
\* and the width is then k - 1.
C6_TruncatedWidth ==
    (Saved /\ imgIn.h > maxHeight) =>
        LET exact == imgIn.w * maxHeight
            floor == exact \div imgIn.h
        IN  /\ saved.h = maxHeight
            /\ exact % imgIn.h # 0 => saved.w = floor
            /\ exact % imgIn.h = 0 => saved.w \in {floor, floor - 1}

\* C6 witness: a 30 x 22 image with max_height 11 was saved 14 wide (the
\* quotient is 15 exactly, the double product is just below it).
C6_Witness ==
    /\ Saved
    /\ imgIn.w = 30 /\ imgIn.h = 22 /\ maxHeight = 11
    /\ saved.w = 14 /\ saved.h = 11

\* C7: an image whose height is at most max_height (equal included) is saved
\* again, with the pixel dimensions it had.
C7_NoResizeBelowThreshold ==
    (npc = "saved" /\ imgIn.h <= maxHeight) =>
        /\ Saved
        /\ saved.w = imgIn.w
        /\ saved.h = imgIn.h

\* C7 witness: a palette image exactly max_height tall was saved unresized.
C7_Witness ==
    /\ Saved
    /\ imgIn.h = maxHeight
    /\ imgIn.mode = "P"
    /\ saved = [w |-> imgIn.w, h |-> imgIn.h, mode |-> "RGB"]

====
